---- MODULE Spec2Model ----
(***************************************************************************)
(* Control plane of LJZ-sudo/agent_main: the task scheduler                *)
(* (backend/core/scheduler.py, class SystemScheduler) and the task-status  *)
(* part of the blackboard (backend/core/blackboard.py, class Blackboard).  *)
(*                                                                         *)
(* The scheduler runs on one asyncio event loop.  Its event handlers       *)
(* (_handle_task_created, _handle_task_completed) contain no suspension    *)
(* point and the body of _scheduler_loop runs under scheduler_lock, so     *)
(* each of them is one atomic action here.  The only await of the tick     *)
(* that reaches the event loop is publish_event in _assign_task; what the  *)
(* scheduler itself does with the published event (it is subscribed to     *)
(* TASK_CREATED) is part of the tick.                                      *)
(***************************************************************************)
EXTENDS Integers, Sequences, FiniteSets, TLC

(***************************************************************************)
(* Bounds of the model                                                     *)
(***************************************************************************)
MaxTasks == 2
MaxTime == 1
MaxDeps == 1
MaxCalls == 3

TaskIds == 1..MaxTasks

(***************************************************************************)
(* TaskStatus (scheduler.py) and the sentinels for Optional fields         *)
(***************************************************************************)
PENDING == "pending"
ASSIGNED == "assigned"
RUNNING == "running"
COMPLETED == "completed"
FAILED == "failed"
CANCELLED == "cancelled"
TIMEOUT == "timeout"

TaskStatus == {PENDING, ASSIGNED, RUNNING, COMPLETED, FAILED, CANCELLED, TIMEOUT}

NoAgent == "none"
NoTime == -1
NoError == "none"

(***************************************************************************)
(* Inputs of a task-created event                                          *)
(***************************************************************************)
TaskTypes == {"research_request", "design_request"}
PriorityInputs == {1, 5}
MaxRetriesInputs == {0, 2}
TimeoutInputs == {0}

RECURSIVE SeqsUpTo(_, _)
SeqsUpTo(S, n) ==
    IF n = 0 THEN {<<>>}
    ELSE LET shorter == SeqsUpTo(S, n - 1)
         IN  shorter \cup {Append(s, x) : s \in shorter, x \in S}

DependencyInputs == SeqsUpTo(TaskIds, MaxDeps)

\* event.data of the TASK_CREATED events submitted to the scheduler.  A
\* research_request is assigned through a TASK_CREATED event, which the
\* scheduler itself receives again; it is submitted in one shape only.
TaskCreatedInputs ==
    {d \in [task_type : TaskTypes, priority : PriorityInputs,
            dependencies : DependencyInputs, max_retries : MaxRetriesInputs,
            timeout_seconds : TimeoutInputs] :
        d.task_type = "research_request" =>
            d.priority = 1 /\ d.dependencies = <<>> /\ d.max_retries = 0}

(***************************************************************************)
(* Workers: agent_capabilities and event_subscriptions as _create_agents   *)
(* builds them from the agents' configurations                             *)
(***************************************************************************)
AgentNames == {"w1", "w2"}

max_concurrent_tasks == [a \in AgentNames |-> IF a = "w1" THEN 2 ELSE 1]

success_rate == [a \in AgentNames |-> 100]

TASK_CREATED == "task_created"
DESIGN_REQUEST == "design_request"

event_subscriptions ==
    [e \in {TASK_CREATED, DESIGN_REQUEST} |->
        IF e = TASK_CREATED THEN <<"w1">> ELSE <<"w1", "w2">>]

load_balancing_enabled == TRUE

\* what agent.get_status() makes of is_available in _check_agent_health
HealthReports ==
    {[a \in AgentNames |-> TRUE], [a \in AgentNames |-> a # "w1"]}

(***************************************************************************)
(* TaskStatus and EventType of blackboard.py, and the blackboard's         *)
(* sentinels                                                               *)
(***************************************************************************)
SUCCESS == "success"

TaskRequestStatus == {PENDING, RUNNING, SUCCESS, FAILED, CANCELLED}

NoRequest == "absent"
NoStatus == "none"
NoCaller == 0
NoTask == 0
NoValue == 0
NoEvent == "none"
NoHandler == "none"
NoKey == "none"

\* the handlers that subscribe, and the keys and values of the shared data
Handlers == {"h1", "h2"}
DataKeys == {"k"}
DataValues == {1, 2}

TASK_STARTED == "task_started"
TASK_COMPLETED == "task_completed"
TASK_FAILED == "task_failed"
DATA_UPDATED == "data_updated"

max_history == 1000

\* events published directly by agents, and the types handlers subscribe to
PublishInputs == {TASK_COMPLETED, DATA_UPDATED}

EventTypes ==
    {TASK_CREATED, TASK_STARTED, TASK_COMPLETED, TASK_FAILED, DATA_UPDATED}

(***************************************************************************)
(* CollaborationManager (collaboration_manager.py) and AgentManager        *)
(* (agent_manager.py): bounds, enums and sentinels                         *)
(***************************************************************************)
MaxCollabs == 1
ClockStep == 15
MaxQueue == 2
NumWorkers == 2

CollabIds == 1..MaxCollabs
WorkerNames == 1..NumWorkers

\* the entry of an id no collaboration has been initiated under
NoCollaboration ==
    [collaboration_mode |-> "none", participants |-> <<>>,
     task_decomposition |-> <<>>, status |-> "absent", elapsed |-> 0]

VARIABLES
    pending_tasks,     \* SystemScheduler.pending_tasks, in insertion order
    running_tasks,     \* SystemScheduler.running_tasks
    completed_tasks,   \* SystemScheduler.completed_tasks
    failed_tasks,      \* SystemScheduler.failed_tasks
    current_load,      \* AgentCapability.current_load per agent
    is_available,      \* AgentCapability.is_available per agent
    now,               \* datetime.now(), in seconds
    created,           \* number of tasks submitted so far
    bb_lock,           \* Blackboard._lock: the call that holds it
    task_requests,     \* Blackboard.task_requests: status per task_id
    event_history,     \* Blackboard.event_history
    calls,             \* the calls made to the blackboard, in order
    bb_waiters,        \* the calls waiting for Blackboard._lock, in order
    events,            \* Blackboard.events
    subscribers,       \* Blackboard.subscribers: handlers per event type
    shared_data,       \* Blackboard.shared_data: value per key
    deliveries,        \* the handler tasks of the gather in progress
    received,          \* per handler, the events it was invoked for
    active_collaborations,     \* CollaborationManager.active_collaborations
    completed_collaborations,  \* CollaborationManager.completed_collaborations
    collaboration_tasks,       \* the CollaborationTask objects, by id
    monitors,          \* the _monitor_collaboration task of each collaboration
    running,           \* AgentManager.running
    task_queue,        \* AgentManager.task_queue: the number of its items
    workers,           \* the _task_worker coroutines' positions
    shutdown           \* the position of the call of AgentManager.shutdown

svars == <<pending_tasks, running_tasks, completed_tasks, failed_tasks,
           current_load, is_available, now, created>>

bvars == <<bb_lock, task_requests, event_history, calls, bb_waiters, events,
           subscribers, shared_data, deliveries, received>>

cvars == <<active_collaborations, completed_collaborations,
           collaboration_tasks, monitors>>

mvars == <<running, task_queue, workers, shutdown>>

vars == <<pending_tasks, running_tasks, completed_tasks, failed_tasks,
          current_load, is_available, now, created,
          bb_lock, task_requests, event_history, calls, bb_waiters, events,
          subscribers, shared_data, deliveries, received,
          active_collaborations, completed_collaborations,
          collaboration_tasks, monitors,
          running, task_queue, workers, shutdown>>

(***************************************************************************)
(* A Python dict keyed by task_id, as the sequence of its values in        *)
(* insertion order                                                         *)
(***************************************************************************)
Keys(q) == {q[i].task_id : i \in DOMAIN q}

Has(q, id) == id \in Keys(q)

Get(q, id) == q[CHOOSE i \in DOMAIN q : q[i].task_id = id]

Put(q, t) ==
    IF Has(q, t.task_id)
    THEN [i \in DOMAIN q |-> IF q[i].task_id = t.task_id THEN t ELSE q[i]]
    ELSE Append(q, t)

Del(q, id) == SelectSeq(q, LAMBDA t : t.task_id # id)

Values(q) == {q[i] : i \in DOMAIN q}

\* list.remove(x): drops the first occurrence of x
RECURSIVE RemoveFirst(_, _)
RemoveFirst(s, x) ==
    IF s = <<>> THEN <<>>
    ELSE IF Head(s) = x THEN Tail(s)
    ELSE <<Head(s)>> \o RemoveFirst(Tail(s), x)

InSeq(s, x) == \E i \in DOMAIN s : s[i] = x

Max(a, b) == IF a >= b THEN a ELSE b

(***************************************************************************)
(* ScheduleTask                                                            *)
(***************************************************************************)
SafeConvertPriority(p) ==
    IF p <= 0 THEN 0
    ELSE IF p = 1 THEN 1
    ELSE IF p = 2 THEN 2
    ELSE IF p = 3 THEN 3
    ELSE 4

\* with_status is every assignment to task.status; prev_status is history
WithStatus(t, s) == [t EXCEPT !.prev_status = t.status, !.status = s]

\* the ScheduleTask that _handle_task_created builds from event.data
NewTask(id, ttype, prio, deps, mr, to) ==
    [task_id |-> id,
     task_type |-> ttype,
     priority |-> SafeConvertPriority(prio),
     event_priority |-> prio,
     created_at |-> now,
     assigned_agent |-> NoAgent,
     status |-> PENDING,
     dependencies |-> deps,
     max_retries |-> mr,
     retry_count |-> 0,
     timeout_seconds |-> to,
     error_message |-> NoError,
     started_at |-> NoTime,
     declared |-> deps,        \* history: dependencies as submitted
     failures |-> 0,           \* history: failed completions handled
     prev_status |-> "new"]    \* history: status before the last change

is_ready(t) == t.status = PENDING /\ Len(t.dependencies) = 0

is_expired(t, time) ==
    IF t.started_at # NoTime /\ t.status = RUNNING
    THEN time - t.started_at > t.timeout_seconds
    ELSE FALSE

can_retry(t) == t.retry_count < t.max_retries /\ t.status = FAILED

(***************************************************************************)
(* The scheduler's mutable state as one value, threaded through the steps  *)
(* of a handler                                                            *)
(***************************************************************************)
State == [pending |-> pending_tasks, running |-> running_tasks,
          completed |-> completed_tasks, failed |-> failed_tasks,
          load |-> current_load]

DetermineTaskEventType(t) ==
    IF t.task_type = "research_request" THEN TASK_CREATED
    ELSE IF t.task_type = "design_request" THEN DESIGN_REQUEST
    ELSE TASK_CREATED

\* min(..., key=...) returns the first element of the least key
FirstMin(cands, key) ==
    LET best == CHOOSE i \in DOMAIN cands :
                    /\ \A j \in DOMAIN cands : key[cands[j]] >= key[cands[i]]
                    /\ \A j \in DOMAIN cands :
                           j < i => key[cands[j]] > key[cands[i]]
    IN  cands[best]

\* the selection with the capacity test left out of the filter
FindSuitableAgentNoCapacityTest(st, t) ==
    LET ev == DetermineTaskEventType(t)
    IN  IF ev \notin DOMAIN event_subscriptions THEN NoAgent
        ELSE LET available_agents ==
                     SelectSeq(event_subscriptions[ev],
                               LAMBDA a : is_available[a])
             IN  IF available_agents = <<>> THEN NoAgent
                 ELSE FirstMin(available_agents, st.load)

FindSuitableAgent(st, t) ==
    LET ev == DetermineTaskEventType(t)
    IN  IF ev \notin DOMAIN event_subscriptions THEN NoAgent
        ELSE LET available_agents ==
                     SelectSeq(event_subscriptions[ev],
                               LAMBDA a : /\ is_available[a]
                                          /\ st.load[a] < max_concurrent_tasks[a])
             IN  IF available_agents = <<>> THEN NoAgent
                 ELSE IF load_balancing_enabled
                      THEN FirstMin(available_agents, st.load)
                      ELSE FirstMin(available_agents,
                                    [a \in AgentNames |-> 0 - success_rate[a]])

(***************************************************************************)
(* _handle_task_created                                                    *)
(***************************************************************************)
TaskCreated(st, id, ttype, prio, deps, mr, to) ==
    [st EXCEPT !.pending = Put(@, NewTask(id, ttype, prio, deps, mr, to))]

(***************************************************************************)
(* _assign_task.  raises: create_event or publish_event raised, which the  *)
(* except clause turns into status FAILED on the task it has just put into *)
(* running_tasks.  Otherwise the event is published, and when its type is  *)
(* TASK_CREATED the scheduler's own _handle_task_created receives it with  *)
(* data = task.event_data, whose "dependencies" list is the task's own.    *)
(***************************************************************************)
AssignTask(st, t, agent_name, raises) ==
    LET t1 == WithStatus([t EXCEPT !.assigned_agent = agent_name,
                                   !.started_at = now], ASSIGNED)
        st1 == [st EXCEPT !.running = Put(@, t1),
                          !.pending = Del(@, t.task_id),
                          !.load = [@ EXCEPT ![agent_name] = @ + 1]]
    IN  IF raises
        THEN [st1 EXCEPT !.running =
                 Put(@, [WithStatus(t1, FAILED) EXCEPT
                             !.error_message = "assign_error"])]
        ELSE IF DetermineTaskEventType(t) = TASK_CREATED
             THEN TaskCreated(st1, t.task_id, t.task_type, t.event_priority,
                              t.dependencies, t.max_retries, t.timeout_seconds)
             ELSE st1

(***************************************************************************)
(* _process_pending_tasks                                                  *)
(***************************************************************************)
KeyGreater(a, b) ==
    \/ a.priority > b.priority
    \/ a.priority = b.priority /\ a.created_at > b.created_at

\* stable insertion for sorted(..., reverse=True)
RECURSIVE InsertSorted(_, _)
InsertSorted(s, t) ==
    IF s = <<>> THEN <<t>>
    ELSE IF KeyGreater(t, Head(s)) THEN <<t>> \o s
    ELSE <<Head(s)>> \o InsertSorted(Tail(s), t)

RECURSIVE SortedTasks(_)
SortedTasks(q) ==
    IF q = <<>> THEN <<>>
    ELSE InsertSorted(SortedTasks(SubSeq(q, 1, Len(q) - 1)), q[Len(q)])

RECURSIVE AssignLoop(_, _, _)
AssignLoop(st, tasks, raisers) ==
    IF tasks = <<>> THEN st
    ELSE LET t == Head(tasks)
         IN  IF ~is_ready(t) THEN AssignLoop(st, Tail(tasks), raisers)
             ELSE LET suitable_agent == FindSuitableAgent(st, t)
                  IN  IF suitable_agent = NoAgent
                      THEN AssignLoop(st, Tail(tasks), raisers)
                      ELSE AssignLoop(AssignTask(st, t, suitable_agent,
                                                 t.task_id \in raisers),
                                      Tail(tasks), raisers)

ProcessPendingTasks(st, raisers) ==
    IF st.pending = <<>> THEN st
    ELSE AssignLoop(st, SortedTasks(st.pending), raisers)

(***************************************************************************)
(* _check_timeout_tasks                                                    *)
(***************************************************************************)
ReleaseLoad(load, t) ==
    IF t.assigned_agent # NoAgent /\ t.assigned_agent \in DOMAIN load
    THEN [load EXCEPT ![t.assigned_agent] = Max(0, @ - 1)]
    ELSE load

RECURSIVE TimeoutLoop(_, _)
TimeoutLoop(st, timeout_tasks) ==
    IF timeout_tasks = <<>> THEN st
    ELSE LET t == Head(timeout_tasks)
             t1 == [WithStatus(t, TIMEOUT) EXCEPT !.error_message = "timeout"]
         IN  TimeoutLoop([st EXCEPT !.load = ReleaseLoad(@, t1),
                                    !.failed = Put(@, t1),
                                    !.running = Del(@, t.task_id)],
                         Tail(timeout_tasks))

CheckTimeoutTasks(st) ==
    TimeoutLoop(st, SelectSeq(st.running, LAMBDA t : is_expired(t, now)))

(***************************************************************************)
(* _retry_failed_tasks                                                     *)
(***************************************************************************)
\* the retry sweep with the increment of retry_count left out
RECURSIVE RetryLoopNoCount(_, _)
RetryLoopNoCount(st, retry_tasks) ==
    IF retry_tasks = <<>> THEN st
    ELSE LET t == Head(retry_tasks)
             t1 == [WithStatus(t, PENDING) EXCEPT
                        !.assigned_agent = NoAgent,
                        !.started_at = NoTime,
                        !.error_message = NoError]
         IN  RetryLoopNoCount([st EXCEPT !.pending = Put(@, t1),
                                         !.failed = Del(@, t.task_id)],
                              Tail(retry_tasks))

RECURSIVE RetryLoop(_, _)
RetryLoop(st, retry_tasks) ==
    IF retry_tasks = <<>> THEN st
    ELSE LET t == Head(retry_tasks)
             t1 == [WithStatus(t, PENDING) EXCEPT
                        !.assigned_agent = NoAgent,
                        !.started_at = NoTime,
                        !.retry_count = @ + 1,
                        !.error_message = NoError]
         IN  RetryLoop([st EXCEPT !.pending = Put(@, t1),
                                  !.failed = Del(@, t.task_id)],
                       Tail(retry_tasks))

RetryFailedTasks(st) ==
    RetryLoop(st, SelectSeq(st.failed, LAMBDA t : can_retry(t)))

(***************************************************************************)
(* _handle_task_completed and _resolve_task_dependencies                   *)
(***************************************************************************)
\* the resolution step that forgets to remove the completed id
ResolveNothing(pending, completed_task_id) == pending

ResolveTaskDependencies(pending, completed_task_id) ==
    [i \in DOMAIN pending |->
        IF InSeq(pending[i].dependencies, completed_task_id)
        THEN [pending[i] EXCEPT
                 !.dependencies = RemoveFirst(@, completed_task_id)]
        ELSE pending[i]]

\* the handler with "del self.running_tasks[task_id]" left out
TaskCompletedKeepsRunning(st, task_id, reported_failed) ==
    IF ~Has(st.running, task_id) THEN st
    ELSE LET t == Get(st.running, task_id)
             t1 == IF reported_failed
                   THEN [WithStatus(t, FAILED) EXCEPT
                            !.error_message = "unknown_error",
                            !.failures = @ + 1]
                   ELSE WithStatus(t, COMPLETED)
         IN  [st EXCEPT
                !.failed = IF reported_failed THEN Put(@, t1) ELSE @,
                !.completed = IF reported_failed THEN @ ELSE Put(@, t1),
                !.load = ReleaseLoad(@, t1),
                !.pending = ResolveTaskDependencies(@, task_id)]

TaskCompleted(st, task_id, reported_failed) ==
    IF ~Has(st.running, task_id) THEN st
    ELSE LET t == Get(st.running, task_id)
             t1 == IF reported_failed
                   THEN [WithStatus(t, FAILED) EXCEPT
                            !.error_message = "unknown_error",
                            !.failures = @ + 1]
                   ELSE WithStatus(t, COMPLETED)
         IN  [st EXCEPT
                !.failed = IF reported_failed THEN Put(@, t1) ELSE @,
                !.completed = IF reported_failed THEN @ ELSE Put(@, t1),
                !.load = ReleaseLoad(@, t1),
                !.running = Del(@, task_id),
                !.pending = ResolveTaskDependencies(@, task_id)]

(***************************************************************************)
(* The body of _scheduler_loop: assignment, timeout sweep, retry sweep     *)
(***************************************************************************)
Tick(st, raisers) ==
    RetryFailedTasks(CheckTimeoutTasks(ProcessPendingTasks(st, raisers)))

(***************************************************************************)
(* Actions                                                                 *)
(***************************************************************************)
Install(st) ==
    /\ pending_tasks' = st.pending
    /\ running_tasks' = st.running
    /\ completed_tasks' = st.completed
    /\ failed_tasks' = st.failed
    /\ current_load' = st.load

Init ==
    /\ pending_tasks = <<>>
    /\ running_tasks = <<>>
    /\ completed_tasks = <<>>
    /\ failed_tasks = <<>>
    /\ current_load = [a \in AgentNames |-> 0]
    /\ is_available = [a \in AgentNames |-> TRUE]
    /\ now = 0
    /\ created = 0
    /\ bb_lock = NoCaller
    /\ task_requests = [id \in TaskIds |-> NoRequest]
    /\ event_history = <<>>
    /\ calls = <<>>
    /\ bb_waiters = <<>>
    /\ events = <<>>
    /\ subscribers = [e \in EventTypes |-> <<>>]
    /\ shared_data = [k \in DataKeys |-> NoValue]
    /\ deliveries = <<>>
    /\ received = [h \in Handlers |-> <<>>]
    /\ active_collaborations = {}
    /\ completed_collaborations = {}
    /\ collaboration_tasks = [id \in CollabIds |-> NoCollaboration]
    /\ monitors = [id \in CollabIds |-> "none"]
    /\ running = FALSE
    /\ task_queue = 0
    /\ workers = [w \in WorkerNames |-> "not_started"]
    /\ shutdown = "not_called"

\* a TASK_CREATED event reaches _handle_task_created; submissions carry fresh
\* ids (uuid4), named here in the order of their arrival
HandleTaskCreated ==
    /\ created < MaxTasks
    /\ \E d \in TaskCreatedInputs :
          Install(TaskCreated(State, created + 1, d.task_type, d.priority,
                              d.dependencies, d.max_retries,
                              d.timeout_seconds))
    /\ created' = created + 1
    /\ UNCHANGED <<is_available, now>>
    /\ UNCHANGED <<bvars, cvars, mvars>>

\* a TASK_COMPLETED event reaches _handle_task_completed
HandleTaskCompleted ==
    \E id \in TaskIds, reported_failed \in BOOLEAN :
        /\ Install(TaskCompleted(State, id, reported_failed))
        /\ UNCHANGED <<is_available, now, created>>
        /\ UNCHANGED <<bvars, cvars, mvars>>

\* one iteration of _scheduler_loop under scheduler_lock
SchedulerTick ==
    \E raisers \in SUBSET TaskIds :
        /\ Install(Tick(State, raisers))
        /\ UNCHANGED <<is_available, now, created>>
        /\ UNCHANGED <<bvars, cvars, mvars>>

\* _check_agent_health: is_available follows each agent's reported status
CheckAgentHealth ==
    \E status \in HealthReports :
        /\ is_available' = status
        /\ UNCHANGED <<pending_tasks, running_tasks, completed_tasks,
                       failed_tasks, current_load, now, created>>
        /\ UNCHANGED <<bvars, cvars, mvars>>

\* the wall clock advances
AdvanceTime ==
    /\ now < MaxTime
    /\ now' = now + 1
    /\ UNCHANGED <<pending_tasks, running_tasks, completed_tasks,
                   failed_tasks, current_load, is_available, created>>
    /\ UNCHANGED <<bvars, cvars, mvars>>

Next ==
    \/ HandleTaskCreated
    \/ HandleTaskCompleted
    \/ SchedulerTick
    \/ CheckAgentHealth
    \/ AdvanceTime

Spec == Init /\ [][Next]_vars

(***************************************************************************)
(* Blackboard (blackboard.py): the event history, the subscribers, the     *)
(* shared data, the task-request table and the asyncio.Lock that guards    *)
(* them.  A call runs without suspension from its start to the first       *)
(* await that has to wait: an acquire that finds the lock taken, or the    *)
(* gather of the handlers publish_event notifies.  The handlers run as     *)
(* tasks of the event loop, in the order gather created them, while the    *)
(* publisher holds the lock.                                               *)
(***************************************************************************)
\* event type update_task_status publishes for a status
StatusEventType(status) ==
    IF status = RUNNING THEN TASK_STARTED
    ELSE IF status = SUCCESS THEN TASK_COMPLETED
    ELSE IF status = FAILED THEN TASK_FAILED
    ELSE DATA_UPDATED

\* event_id stands for the uuid4 of the event: the number of the call that
\* made it
BlackboardEvent(event_id, event_type, task_id, new_status) ==
    [event_id |-> event_id, event_type |-> event_type,
     task_id |-> task_id, new_status |-> new_status]

\* the history that evicts the newest entries instead of the oldest
AppendHistoryKeepsOldest(history, event) ==
    LET h == Append(history, event)
    IN  IF Len(h) > max_history THEN SubSeq(h, 1, max_history) ELSE h

\* the history that takes a new event at its front
AppendHistoryAtFront(history, event) ==
    LET h == <<event>> \o history
    IN  IF Len(h) > max_history
        THEN SubSeq(h, Len(h) - max_history + 1, Len(h))
        ELSE h

\* event_history.append(event) and the cut to the last max_history entries
AppendHistory(history, event) ==
    LET h == Append(history, event)
    IN  IF Len(h) > max_history
        THEN SubSeq(h, Len(h) - max_history + 1, Len(h))
        ELSE h

\* a lock that lets its holder in again
AcquirableByHolderToo(lock, caller) == lock = NoCaller \/ lock = caller

\* asyncio.Lock.acquire returns at once only when nobody holds the lock
Acquirable(lock, caller) == lock = NoCaller

\* a call of a coroutine of the blackboard with its arguments; at is the
\* number of events published when a subscribe took effect, notified the
\* handlers a publish_event made tasks for, within the publish_event call
\* whose handler task makes this call
Call(op, task_id, status, pc) ==
    [op |-> op, task_id |-> task_id, status |-> status, pc |-> pc,
     event_type |-> NoEvent, handler |-> NoHandler, key |-> NoKey,
     value |-> NoValue, at |-> 0, notified |-> <<>>, within |-> NoCaller]

\* the blackboard's mutable state as one value
BB ==
    [lock |-> bb_lock, waiters |-> bb_waiters, requests |-> task_requests,
     history |-> event_history, events |-> events,
     subscribers |-> subscribers, data |-> shared_data,
     deliveries |-> deliveries, received |-> received, calls |-> calls]

Returned(b, c, pc) == [b EXCEPT !.calls[c].pc = pc, !.lock = NoCaller]

\* the body of publish_event under the lock: append to events and to the
\* history, then _notify_subscribers
PublishEvent(b, c, event) ==
    LET b1 == [b EXCEPT !.events = Append(@, event),
                        !.history = AppendHistory(@, event)]
        targets == b.subscribers[event.event_type]
    IN  IF targets = <<>>
        THEN Returned(b1, c, "returned")
        ELSE [b1 EXCEPT !.lock = c,
                        !.deliveries = [i \in DOMAIN targets |->
                                           [handler |-> targets[i],
                                            event |-> event]],
                        !.calls[c].pc = "in_gather",
                        !.calls[c].notified = targets]

\* "await self.publish_event(event)" inside "async with self._lock", the
\* caller c holding the lock
PublishHoldingLock(b, c, event) ==
    IF Acquirable(c, c)      \* the lock's holder is the caller
    THEN PublishEvent(b, c, event)
    ELSE [b EXCEPT !.lock = c, !.calls[c].pc = "in_publish_event"]

CreateTaskRequest(b, c) ==
    LET id == b.calls[c].task_id
    IN  PublishHoldingLock([b EXCEPT !.requests[id] = PENDING], c,
                           BlackboardEvent(c, TASK_CREATED, id, NoStatus))

UpdateTaskStatus(b, c) ==
    LET id == b.calls[c].task_id
        status == b.calls[c].status
    IN  IF b.requests[id] = NoRequest
        THEN Returned(b, c, "returned_false")
        ELSE PublishHoldingLock([b EXCEPT !.requests[id] = status], c,
                                BlackboardEvent(c, StatusEventType(status),
                                                id, status))

StoreData(b, c) ==
    PublishHoldingLock([b EXCEPT !.data[b.calls[c].key] = b.calls[c].value],
                       c, BlackboardEvent(c, DATA_UPDATED, NoTask, NoStatus))

\* get_data: the value read is kept in the call's value
GetData(b, c) ==
    Returned([b EXCEPT !.calls[c].value = b.data[b.calls[c].key]], c,
             "returned")

DeleteData(b, c) ==
    IF b.data[b.calls[c].key] # NoValue
    THEN Returned([b EXCEPT !.data[b.calls[c].key] = NoValue], c, "returned")
    ELSE Returned(b, c, "returned_false")

\* the subscription that hands the new handler the events already in the
\* history
SubscribeWithReplay(b, c) ==
    LET h == b.calls[c].handler
        past == SelectSeq(b.history,
                          LAMBDA e : e.event_type = b.calls[c].event_type)
    IN  Returned([b EXCEPT
                     !.subscribers[b.calls[c].event_type] = Append(@, h),
                     !.received[h] =
                         @ \o [i \in DOMAIN past |->
                                  [event_id |-> past[i].event_id,
                                   event_type |-> past[i].event_type,
                                   raised |-> FALSE]],
                     !.calls[c].at = Len(b.events)], c, "returned")

Subscribe(b, c) ==
    Returned([b EXCEPT !.subscribers[b.calls[c].event_type] =
                           Append(@, b.calls[c].handler),
                       !.calls[c].at = Len(b.events)], c, "returned")

Unsubscribe(b, c) ==
    Returned([b EXCEPT !.subscribers[b.calls[c].event_type] =
                           RemoveFirst(@, b.calls[c].handler)], c, "returned")

\* health_check awaits get_system_status, which awaits get_events inside
\* "async with self._lock"; get_events acquires the same lock
HealthCheck(b, c) ==
    IF Acquirable(c, c)      \* the lock's holder is the caller
    THEN Returned(b, c, "returned")
    ELSE [b EXCEPT !.lock = c, !.calls[c].pc = "in_get_events"]

\* the body of call c, which has just acquired the lock
RunCall(b, c) ==
    LET op == b.calls[c].op
    IN  IF op = "publish_event"
        THEN PublishEvent(b, c, BlackboardEvent(c, b.calls[c].event_type,
                                                b.calls[c].task_id, NoStatus))
        ELSE IF op = "create_task_request" THEN CreateTaskRequest(b, c)
        ELSE IF op = "update_task_status" THEN UpdateTaskStatus(b, c)
        ELSE IF op = "store_data" THEN StoreData(b, c)
        ELSE IF op = "get_data" THEN GetData(b, c)
        ELSE IF op = "delete_data" THEN DeleteData(b, c)
        ELSE IF op = "subscribe" THEN Subscribe(b, c)
        ELSE IF op = "unsubscribe" THEN Unsubscribe(b, c)
        ELSE HealthCheck(b, c)

\* gather without return_exceptions: a handler that raises ends the
\* notification and the publish
RunHandlerRaiseAborts(b, raised) ==
    LET d == Head(b.deliveries)
        b1 == [b EXCEPT !.received[d.handler] =
                            Append(@, [event_id |-> d.event.event_id,
                                       event_type |-> d.event.event_type,
                                       raised |-> raised])]
    IN  IF raised
        THEN Returned([b1 EXCEPT !.deliveries = <<>>], b.lock, "raised")
        ELSE [b1 EXCEPT !.deliveries = Tail(@)]

\* the next handler task of the gather runs; what it raises is kept by
\* gather(return_exceptions=True)
RunHandler(b, raised) ==
    LET d == Head(b.deliveries)
    IN  [b EXCEPT !.deliveries = Tail(@),
                  !.received[d.handler] =
                      Append(@, [event_id |-> d.event.event_id,
                                 event_type |-> d.event.event_type,
                                 raised |-> raised])]

InstallBB(b) ==
    /\ bb_lock' = b.lock
    /\ bb_waiters' = b.waiters
    /\ task_requests' = b.requests
    /\ event_history' = b.history
    /\ events' = b.events
    /\ subscribers' = b.subscribers
    /\ shared_data' = b.data
    /\ deliveries' = b.deliveries
    /\ received' = b.received
    /\ calls' = b.calls

\* a coroutine of the blackboard is called: it runs when it gets the lock
\* at once, and waits in the lock's queue otherwise
Start(call) ==
    LET c == Len(calls) + 1
        b == [BB EXCEPT !.calls = Append(@, call)]
    IN  IF Acquirable(bb_lock, c) /\ bb_waiters = <<>>
        THEN RunCall(b, c)
        ELSE [b EXCEPT !.waiters = Append(@, c)]

CallPublishEvent ==
    /\ Len(calls) < MaxCalls
    /\ \E event_type \in PublishInputs, id \in TaskIds :
          InstallBB(Start([Call("publish_event", id, NoStatus, "in_acquire")
                              EXCEPT !.event_type = event_type]))
    /\ UNCHANGED <<svars, cvars, mvars>>

CallSubscribe ==
    /\ Len(calls) < MaxCalls
    /\ \E event_type \in PublishInputs, h \in Handlers :
          InstallBB(Start([Call("subscribe", NoTask, NoStatus, "in_acquire")
                              EXCEPT !.event_type = event_type,
                                     !.handler = h]))
    /\ UNCHANGED <<svars, cvars, mvars>>

CallUnsubscribe ==
    /\ Len(calls) < MaxCalls
    /\ \E event_type \in PublishInputs, h \in Handlers :
          InstallBB(Start([Call("unsubscribe", NoTask, NoStatus, "in_acquire")
                              EXCEPT !.event_type = event_type,
                                     !.handler = h]))
    /\ UNCHANGED <<svars, cvars, mvars>>

CallCreateTaskRequest ==
    /\ Len(calls) < MaxCalls
    /\ \E id \in TaskIds :
          InstallBB(Start(Call("create_task_request", id, NoStatus,
                               "in_acquire")))
    /\ UNCHANGED <<svars, cvars, mvars>>

CallUpdateTaskStatus ==
    /\ Len(calls) < MaxCalls
    /\ \E id \in TaskIds, status \in TaskRequestStatus :
          InstallBB(Start(Call("update_task_status", id, status,
                               "in_acquire")))
    /\ UNCHANGED <<svars, cvars, mvars>>

CallStoreData ==
    /\ Len(calls) < MaxCalls
    /\ \E k \in DataKeys, v \in DataValues :
          InstallBB(Start([Call("store_data", NoTask, NoStatus, "in_acquire")
                              EXCEPT !.key = k, !.value = v]))
    /\ UNCHANGED <<svars, cvars, mvars>>

CallGetData ==
    /\ Len(calls) < MaxCalls
    /\ \E k \in DataKeys :
          InstallBB(Start([Call("get_data", NoTask, NoStatus, "in_acquire")
                              EXCEPT !.key = k]))
    /\ UNCHANGED <<svars, cvars, mvars>>

CallDeleteData ==
    /\ Len(calls) < MaxCalls
    /\ \E k \in DataKeys :
          InstallBB(Start([Call("delete_data", NoTask, NoStatus, "in_acquire")
                              EXCEPT !.key = k]))
    /\ UNCHANGED <<svars, cvars, mvars>>

CallHealthCheck ==
    /\ Len(calls) < MaxCalls
    /\ InstallBB(Start(Call("health_check", NoTask, NoStatus, "in_acquire")))
    /\ UNCHANGED <<svars, cvars, mvars>>

\* the event loop runs the next handler task
Deliver ==
    /\ deliveries # <<>>
    /\ \E raised \in BOOLEAN : InstallBB(RunHandler(BB, raised))
    /\ UNCHANGED <<svars, cvars, mvars>>

\* the next handler task runs and awaits a coroutine of the blackboard it
\* was notified by, as AgentManager._handle_task_started awaits store_data;
\* the task is done when that call has returned
DeliverCalling ==
    /\ deliveries # <<>>
    /\ Len(calls) < MaxCalls
    /\ \E k \in DataKeys, v \in DataValues,
          op \in {"store_data", "publish_event"} :
          LET c == Len(calls) + 1
              b == RunHandler(BB, FALSE)
              call == [Call(op, 1, NoStatus, "in_acquire") EXCEPT
                          !.within = bb_lock,
                          !.event_type = IF op = "publish_event"
                                         THEN DATA_UPDATED ELSE NoEvent,
                          !.key = IF op = "store_data" THEN k ELSE NoKey,
                          !.value = IF op = "store_data" THEN v ELSE NoValue]
              b1 == [b EXCEPT !.calls = Append(@, call)]
          IN  InstallBB(IF Acquirable(b1.lock, c) /\ b1.waiters = <<>>
                        THEN RunCall(b1, c)
                        ELSE [b1 EXCEPT !.waiters = Append(@, c)])
    /\ UNCHANGED <<svars, cvars, mvars>>

\* the handler tasks of the publish_event call c that have not finished:
\* those not yet run, and those awaiting a call of their own
HandlersRunning(c) ==
    Len(deliveries)
        + Cardinality({j \in DOMAIN calls :
                          /\ calls[j].within = c
                          /\ calls[j].pc \notin {"returned", "returned_false"}})

\* gather is done: publish_event leaves "async with" and returns
FinishPublish ==
    /\ bb_lock # NoCaller
    /\ calls[bb_lock].pc = "in_gather"
    /\ HandlersRunning(bb_lock) = 0
    /\ InstallBB(Returned(BB, bb_lock, "returned"))
    /\ UNCHANGED <<svars, cvars, mvars>>

\* the lock is free: the first call in its queue gets it and runs
Resume ==
    /\ bb_lock = NoCaller
    /\ bb_waiters # <<>>
    /\ InstallBB(RunCall([BB EXCEPT !.waiters = Tail(@)], Head(bb_waiters)))
    /\ UNCHANGED <<svars, cvars, mvars>>

NextBB ==
    \/ CallPublishEvent
    \/ CallSubscribe
    \/ CallUnsubscribe
    \/ CallCreateTaskRequest
    \/ CallUpdateTaskStatus
    \/ CallStoreData
    \/ CallGetData
    \/ CallDeleteData
    \/ CallHealthCheck
    \/ Deliver
    \/ DeliverCalling
    \/ FinishPublish
    \/ Resume

SpecBB == Init /\ [][NextBB]_vars

(***************************************************************************)
(* The history at its capacity: the blackboard after PublishedBefore       *)
(* events have been published, and further publish_event calls             *)
(***************************************************************************)
PublishedBefore == {0, max_history - 1, max_history}

\* the events published before, oldest first; their ids are below the call
\* numbers
PastEvents(n) ==
    [k \in 1..n |->
        BlackboardEvent(k - n - 1,
                        IF k % 2 = 0 THEN TASK_COMPLETED ELSE DATA_UPDATED,
                        1, NoStatus)]

InitHistory ==
    /\ pending_tasks = <<>>
    /\ running_tasks = <<>>
    /\ completed_tasks = <<>>
    /\ failed_tasks = <<>>
    /\ current_load = [a \in AgentNames |-> 0]
    /\ is_available = [a \in AgentNames |-> TRUE]
    /\ now = 0
    /\ created = 0
    /\ bb_lock = NoCaller
    /\ task_requests = [id \in TaskIds |-> NoRequest]
    /\ calls = <<>>
    /\ bb_waiters = <<>>
    /\ subscribers = [e \in EventTypes |-> <<>>]
    /\ shared_data = [k \in DataKeys |-> NoValue]
    /\ deliveries = <<>>
    /\ received = [h \in Handlers |-> <<>>]
    /\ active_collaborations = {}
    /\ completed_collaborations = {}
    /\ collaboration_tasks = [id \in CollabIds |-> NoCollaboration]
    /\ monitors = [id \in CollabIds |-> "none"]
    /\ running = FALSE
    /\ task_queue = 0
    /\ workers = [w \in WorkerNames |-> "not_started"]
    /\ shutdown = "not_called"
    /\ \E n \in PublishedBefore :
          /\ events = PastEvents(n)
          /\ event_history = PastEvents(n)

NextHistory == CallPublishEvent

SpecHistory == InitHistory /\ [][NextHistory]_vars

(***************************************************************************)
(* CollaborationManager (collaboration_manager.py).  A collaboration is    *)
(* initiated with the participants _select_collaboration_participants      *)
(* found; its monitor task wakes every 30 seconds.  Time is the number of  *)
(* minutes since the monitor set start_time, advancing in steps of         *)
(* ClockStep.                                                              *)
(***************************************************************************)
SEQUENTIAL == "sequential"
PARALLEL == "parallel"

C_PENDING == "pending"
C_ACTIVE == "active"
C_COMPLETED == "completed"
C_FAILED == "failed"

\* timedelta(minutes=30) of the monitor's timeout check
collaboration_timeout_minutes == 30

\* sequence_steps and parallel_aspects: the agents of each entry
sequence_steps ==
    <<{"InformationAgent", "EnhancedInformationAgent"},
      {"EvaluationAgent", "ModelingAgent"},
      {"CritiqueAgent", "VerificationAgent"},
      {"ReportAgent"}>>

parallel_aspects ==
    <<{"InformationAgent"}, {"EvaluationAgent"}, {"ModelingAgent"},
      {"CritiqueAgent"}>>

\* the participants lists a collaboration is initiated with
ParticipantPool ==
    <<"InformationAgent", "EvaluationAgent", "CritiqueAgent", "ReportAgent">>

RECURSIVE SubLists(_)
SubLists(s) ==
    IF s = <<>> THEN {<<>>}
    ELSE LET rest == SubLists(Tail(s))
         IN  rest \cup {<<Head(s)>> \o r : r \in rest}

ParticipantInputs == SubLists(ParticipantPool) \ {<<>>}

ModeInputs == {SEQUENTIAL, PARALLEL}

\* [p.agent_name for p in participants if p.agent_name in agents]
AvailableAgents(participants, agents) ==
    SelectSeq(participants, LAMBDA a : a \in agents)

\* one subtask dict; subtask_id i stands for f"{main_task_id}_seq_{i}" (or
\* _par_), status for what subtask.get("status") returns
Subtask(i, assigned_agents, dependencies) ==
    [subtask_id |-> i, assigned_agents |-> assigned_agents,
     dependencies |-> dependencies, status |-> "none"]

\* the loop over enumerate(sequence_steps), from Python index i on
RECURSIVE SequentialSubtasks(_, _)
SequentialSubtasks(participants, i) ==
    IF i >= Len(sequence_steps) THEN <<>>
    ELSE LET available_agents ==
                 AvailableAgents(participants, sequence_steps[i + 1])
             rest == SequentialSubtasks(participants, i + 1)
         IN  IF available_agents # <<>>
             THEN <<Subtask(i, SubSeq(available_agents, 1, 1),
                            IF i > 0 THEN <<i - 1>> ELSE <<>>)>> \o rest
             ELSE rest

RECURSIVE ParallelSubtasks(_, _)
ParallelSubtasks(participants, i) ==
    IF i >= Len(parallel_aspects) THEN <<>>
    ELSE LET available_agents ==
                 AvailableAgents(participants, parallel_aspects[i + 1])
             rest == ParallelSubtasks(participants, i + 1)
         IN  IF available_agents # <<>>
             THEN <<Subtask(i, available_agents, <<>>)>> \o rest
             ELSE rest

DecomposeCollaborativeTask(participants, collaboration_mode) ==
    IF collaboration_mode = SEQUENTIAL
    THEN SequentialSubtasks(participants, 0)
    ELSE IF collaboration_mode = PARALLEL
    THEN ParallelSubtasks(participants, 0)
    ELSE <<>>

\* the CollaborationTask built by initiate_collaboration; elapsed is
\* datetime.now() - start_time once the monitor has set start_time
CollaborationTask(participants, collaboration_mode) ==
    [collaboration_mode |-> collaboration_mode,
     participants |-> participants,
     task_decomposition |->
         DecomposeCollaborativeTask(participants, collaboration_mode),
     status |-> C_PENDING,
     elapsed |-> 0]

\* completed_ratio >= 1.0 in _check_collaboration_progress
ProgressComplete(task) ==
    /\ Len(task.task_decomposition) > 0
    /\ \A k \in DOMAIN task.task_decomposition :
           task.task_decomposition[k].status = "completed"

\* the monitor that never checks the deadline
DeadlinePassedNever(task) == FALSE

\* datetime.now() - start_time > timedelta(minutes=30)
DeadlinePassed(task) == task.elapsed > collaboration_timeout_minutes

\* get_collaboration_status: the "status" of the dict returned, or "None"
get_collaboration_status(id) ==
    IF id \in active_collaborations THEN collaboration_tasks[id].status
    ELSE IF id \in completed_collaborations
         THEN collaboration_tasks[id].status
    ELSE "None"

\* initiate_collaboration: fewer than two participants, or an exception of
\* create_event after the collaboration is registered, end it with None
\* before the monitor task is made
InitiateCollaboration ==
    /\ \E id \in CollabIds :
          /\ collaboration_tasks[id] = NoCollaboration
          /\ \A j \in CollabIds :
                 j < id => collaboration_tasks[j] # NoCollaboration
          /\ \E participants \in ParticipantInputs, mode \in ModeInputs,
                raises \in BOOLEAN :
                IF Len(participants) < 2
                THEN UNCHANGED cvars
                ELSE /\ collaboration_tasks' =
                            [collaboration_tasks EXCEPT ![id] =
                                CollaborationTask(participants, mode)]
                     /\ active_collaborations' =
                            active_collaborations \cup {id}
                     /\ monitors' =
                            [monitors EXCEPT ![id] =
                                IF raises THEN "none" ELSE "created"]
                     /\ UNCHANGED completed_collaborations
    /\ UNCHANGED <<svars, bvars, mvars>>

\* the monitor task starts: status ACTIVE, start_time now, first sleep
MonitorStart ==
    /\ \E id \in CollabIds :
          /\ monitors[id] = "created"
          /\ collaboration_tasks' =
                 [collaboration_tasks EXCEPT ![id].status = C_ACTIVE,
                                             ![id].elapsed = 0]
          /\ monitors' = [monitors EXCEPT ![id] = "sleeping"]
    /\ UNCHANGED <<active_collaborations, completed_collaborations>>
    /\ UNCHANGED <<svars, bvars, mvars>>

\* the monitor wakes from its sleep: _check_collaboration_progress, then
\* _complete_collaboration (whose create_event may raise into the monitor's
\* except clause), or the timeout check and _handle_collaboration_timeout
MonitorCheck ==
    /\ \E id \in CollabIds, raises \in BOOLEAN :
          /\ monitors[id] = "sleeping"
          /\ LET task == collaboration_tasks[id]
             IN  IF ProgressComplete(task)
                 THEN /\ collaboration_tasks' =
                             [collaboration_tasks EXCEPT ![id].status =
                                 IF raises THEN C_FAILED ELSE C_COMPLETED]
                      /\ completed_collaborations' =
                             completed_collaborations \cup {id}
                      /\ active_collaborations' =
                             active_collaborations \ {id}
                      /\ monitors' = [monitors EXCEPT ![id] = "done"]
                 ELSE IF DeadlinePassed(task)
                 THEN /\ collaboration_tasks' =
                             [collaboration_tasks EXCEPT
                                 ![id].status = C_FAILED]
                      /\ active_collaborations' =
                             active_collaborations \ {id}
                      /\ monitors' = [monitors EXCEPT ![id] = "done"]
                      /\ UNCHANGED completed_collaborations
                 ELSE UNCHANGED cvars
    /\ UNCHANGED <<svars, bvars, mvars>>

\* a participant records the state of a subtask in its dict
SubtaskReported ==
    /\ \E id \in CollabIds :
          /\ collaboration_tasks[id] # NoCollaboration
          /\ collaboration_tasks[id].status \in {C_PENDING, C_ACTIVE}
          /\ \E k \in DOMAIN collaboration_tasks[id].task_decomposition :
                \E status \in {"active", "completed"} :
                   /\ collaboration_tasks[id].task_decomposition[k].status
                          # "completed"
                   /\ collaboration_tasks[id].task_decomposition[k].status
                          # status
                   /\ collaboration_tasks' =
                          [collaboration_tasks EXCEPT
                              ![id].task_decomposition[k].status = status]
    /\ UNCHANGED <<active_collaborations, completed_collaborations,
                   monitors>>
    /\ UNCHANGED <<svars, bvars, mvars>>

\* the wall clock advances while a monitor sleeps; past the deadline the
\* time elapsed makes no difference any more
AdvanceCollaborationClock ==
    /\ \E id \in CollabIds :
          /\ monitors[id] = "sleeping"
          /\ collaboration_tasks[id].elapsed <= collaboration_timeout_minutes
    /\ collaboration_tasks' =
           [id \in CollabIds |->
               IF /\ monitors[id] = "sleeping"
                  /\ collaboration_tasks[id].elapsed
                         <= collaboration_timeout_minutes
               THEN [collaboration_tasks[id] EXCEPT
                        !.elapsed = @ + ClockStep]
               ELSE collaboration_tasks[id]]
    /\ UNCHANGED <<active_collaborations, completed_collaborations,
                   monitors>>
    /\ UNCHANGED <<svars, bvars, mvars>>

NextCollab ==
    \/ InitiateCollaboration
    \/ MonitorStart
    \/ MonitorCheck
    \/ SubtaskReported
    \/ AdvanceCollaborationClock

\* the event loop runs every task that is ready, and time passes
SpecCollab ==
    /\ Init
    /\ [][NextCollab]_vars
    /\ WF_vars(MonitorStart)
    /\ WF_vars(MonitorCheck)
    /\ WF_vars(AdvanceCollaborationClock)

(***************************************************************************)
(* AgentManager (agent_manager.py): the task queue, the _task_worker       *)
(* coroutines start_processing makes, and shutdown.  A worker is at the    *)
(* test of its while loop ("testing"), in wait_for(task_queue.get(), 1.0)  *)
(* ("getting"), in _process_task_item ("processing"), or has left the loop *)
(* ("exited").                                                             *)
(***************************************************************************)
\* initialize: the listeners are set up and running is True
Initialize ==
    /\ ~running
    /\ shutdown = "not_called"
    /\ running' = TRUE
    /\ UNCHANGED <<task_queue, workers, shutdown>>
    /\ UNCHANGED <<svars, bvars, cvars>>

\* start_processing: initialize unless running, then the workers are made
StartProcessing ==
    /\ \A w \in WorkerNames : workers[w] = "not_started"
    /\ running' = TRUE
    /\ workers' = [w \in WorkerNames |-> "testing"]
    /\ UNCHANGED <<task_queue, shutdown>>
    /\ UNCHANGED <<svars, bvars, cvars>>

\* _handle_task_assigned or _handle_agent_request puts an item; the
\* listeners stay subscribed after shutdown
HandleTaskAssigned ==
    /\ running \/ shutdown # "not_called"
    /\ task_queue < MaxQueue
    /\ task_queue' = task_queue + 1
    /\ UNCHANGED <<running, workers, shutdown>>
    /\ UNCHANGED <<svars, bvars, cvars>>

\* "while self.running:"
WorkerTest ==
    /\ \E w \in WorkerNames :
          /\ workers[w] = "testing"
          /\ workers' = [workers EXCEPT ![w] =
                            IF running THEN "getting" ELSE "exited"]
    /\ UNCHANGED <<running, task_queue, shutdown>>
    /\ UNCHANGED <<svars, bvars, cvars>>

\* task_queue.get() returns an item
WorkerGet ==
    /\ task_queue > 0
    /\ \E w \in WorkerNames :
          /\ workers[w] = "getting"
          /\ workers' = [workers EXCEPT ![w] = "processing"]
    /\ task_queue' = task_queue - 1
    /\ UNCHANGED <<running, shutdown>>
    /\ UNCHANGED <<svars, bvars, cvars>>

\* wait_for times out on the empty queue: continue
WorkerTimeout ==
    /\ task_queue = 0
    /\ \E w \in WorkerNames :
          /\ workers[w] = "getting"
          /\ workers' = [workers EXCEPT ![w] = "testing"]
    /\ UNCHANGED <<running, task_queue, shutdown>>
    /\ UNCHANGED <<svars, bvars, cvars>>

\* _process_task_item has returned, or raised into the loop's except clause
WorkerDone ==
    /\ \E w \in WorkerNames :
          /\ workers[w] = "processing"
          /\ workers' = [workers EXCEPT ![w] = "testing"]
    /\ UNCHANGED <<running, task_queue, shutdown>>
    /\ UNCHANGED <<svars, bvars, cvars>>

\* shutdown is called: running = False, then the loop that waits for the
\* queue to be empty, then the agents are shut down
CallShutdown ==
    /\ shutdown = "not_called"
    /\ running
    /\ running' = FALSE
    /\ shutdown' = IF task_queue = 0 THEN "returned" ELSE "waiting"
    /\ UNCHANGED <<task_queue, workers>>
    /\ UNCHANGED <<svars, bvars, cvars>>

\* "while not self.task_queue.empty(): await asyncio.sleep(0.1)" finds the
\* queue empty
ShutdownPoll ==
    /\ shutdown = "waiting"
    /\ task_queue = 0
    /\ shutdown' = "returned"
    /\ UNCHANGED <<running, task_queue, workers>>
    /\ UNCHANGED <<svars, bvars, cvars>>

NextAgentManager ==
    \/ Initialize
    \/ StartProcessing
    \/ HandleTaskAssigned
    \/ WorkerTest
    \/ WorkerGet
    \/ WorkerTimeout
    \/ WorkerDone
    \/ CallShutdown
    \/ ShutdownPoll

SpecAgentManager == Init /\ [][NextAgentManager]_vars

(***************************************************************************)
(* Properties                                                              *)
(***************************************************************************)
AllTasks ==
    Values(pending_tasks) \cup Values(running_tasks)
        \cup Values(completed_tasks) \cup Values(failed_tasks)

Succeeded(id) ==
    Has(completed_tasks, id) /\ Get(completed_tasks, id).status = COMPLETED

\* C1: a task submitted with dependencies is handed to a worker only after
\* every task it was submitted as depending on has completed successfully;
\* while a dependency has failed without succeeding the task stays pending.
C1_DependenciesSucceedFirst ==
    \A t \in Values(running_tasks) :
        \A i \in DOMAIN t.declared : Succeeded(t.declared[i])

\* C2: every worker's current_load stays within 0..max_concurrent_tasks.
C2_LoadWithinCapacity ==
    \A a \in AgentNames :
        current_load[a] >= 0 /\ current_load[a] <= max_concurrent_tasks[a]

\* a ready task waits because every worker subscribed to its event type is
\* available and full
C2_Witness ==
    \E t \in Values(pending_tasks) :
        /\ is_ready(t)
        /\ LET subs == event_subscriptions[DetermineTaskEventType(t)]
           IN  \A i \in DOMAIN subs :
                   /\ is_available[subs[i]]
                   /\ current_load[subs[i]] = max_concurrent_tasks[subs[i]]
        /\ \A raisers \in SUBSET TaskIds :
               \E i \in DOMAIN Tick(State, raisers).pending :
                   Tick(State, raisers).pending[i] = t

DocumentedEdges ==
    {<<PENDING, ASSIGNED>>, <<ASSIGNED, RUNNING>>, <<RUNNING, COMPLETED>>,
     <<RUNNING, FAILED>>, <<RUNNING, TIMEOUT>>, <<FAILED, PENDING>>,
     <<TIMEOUT, PENDING>>, <<PENDING, CANCELLED>>, <<ASSIGNED, CANCELLED>>,
     <<RUNNING, CANCELLED>>}

\* C3: every change of a task's status follows a documented edge.
C3_DocumentedTransitionsOnly ==
    \A t \in AllTasks :
        t.prev_status = "new" \/ <<t.prev_status, t.status>> \in DocumentedEdges

\* C4: a completion event delivered a second time for the same task id
\* changes no worker's load and no task queue.
C4_SecondCompletionChangesNothing ==
    \A id \in TaskIds, first \in BOOLEAN, second \in BOOLEAN :
        TaskCompleted(TaskCompleted(State, id, first), id, second)
            = TaskCompleted(State, id, first)

\* the first delivery is about to release a worker slot that is the only one
\* the worker has taken
C4_Witness ==
    \E t \in Values(running_tasks) :
        /\ t.assigned_agent # NoAgent
        /\ current_load[t.assigned_agent] = 1
        /\ TaskCompleted(State, t.task_id, FALSE).load[t.assigned_agent] = 0
        /\ Has(TaskCompleted(State, t.task_id, FALSE).completed, t.task_id)

RECURSIVE SpareSlots(_)
SpareSlots(subs) ==
    IF subs = <<>> THEN 0
    ELSE (IF is_available[Head(subs)]
          THEN max_concurrent_tasks[Head(subs)] - current_load[Head(subs)]
          ELSE 0) + SpareSlots(Tail(subs))

\* the ready tasks the tick considers before t
ReadyBefore(t) ==
    LET sorted == SortedTasks(pending_tasks)
        pos == CHOOSE i \in DOMAIN sorted : sorted[i] = t
    IN  Cardinality({i \in 1..(pos - 1) : is_ready(sorted[i])})

C7_TwoFailuresThenSuccess ==
    \A t \in Values(completed_tasks) :
        /\ t.status = COMPLETED
        /\ (t.max_retries = 2 /\ t.failures = 2) => t.retry_count = 2

C7_Witness ==
    \E t \in Values(completed_tasks) :
        /\ t.max_retries = 2 /\ t.failures = 2
        /\ t.status = COMPLETED /\ t.retry_count = 2
        /\ ~Has(pending_tasks, t.task_id) /\ ~Has(running_tasks, t.task_id)
        /\ ~Has(failed_tasks, t.task_id)

Overdue(t) ==
    t.started_at # NoTime /\ now - t.started_at > t.timeout_seconds

\* C8: the timeout sweep marks every assigned task whose time since started_at
\* exceeds timeout_seconds as TIMEOUT, moves it out of running_tasks and
\* releases one slot of its worker.
C8_SweepTimesOutOverdueTasks ==
    \A t \in Values(running_tasks) :
        Overdue(t) =>
            LET st == CheckTimeoutTasks(State)
            IN  /\ ~Has(st.running, t.task_id)
                /\ Has(st.failed, t.task_id)
                /\ Get(st.failed, t.task_id).status = TIMEOUT
                /\ st.load[t.assigned_agent] < current_load[t.assigned_agent]

SuccessReports(id) ==
    {i \in DOMAIN calls : /\ calls[i].op = "update_task_status"
                          /\ calls[i].task_id = id
                          /\ calls[i].status = SUCCESS}

CompletedEvents(id) ==
    {i \in DOMAIN event_history :
        /\ event_history[i].event_type = TASK_COMPLETED
        /\ event_history[i].task_id = id
        /\ event_history[i].new_status = SUCCESS}

HandlerOutcomes(id) ==
    {TaskCompleted(State, id, f) : f \in BOOLEAN}
        \cup {Tick(State, raisers) : raisers \in SUBSET TaskIds}
        \cup {State}

\* C10: for every task in a non-terminal status there is an operation that
\* leaves it CANCELLED and, when it held a slot of a worker, that worker's
\* current_load one lower.
C10_CancelReleasesSlot ==
    \A t \in Values(pending_tasks) \cup Values(running_tasks) :
        t.status \in {PENDING, ASSIGNED, RUNNING} =>
            \E st \in HandlerOutcomes(t.task_id) :
                /\ \E q \in {st.pending, st.running, st.completed, st.failed} :
                       Has(q, t.task_id) /\ Get(q, t.task_id).status = CANCELLED
                /\ t.assigned_agent # NoAgent =>
                       st.load[t.assigned_agent]
                           = current_load[t.assigned_agent] - 1

\* position of an event in Blackboard.events, the order of publication
EventIndex(event_id) ==
    CHOOSE i \in DOMAIN events : events[i].event_id = event_id

InHistory(event_id) ==
    \E i \in DOMAIN event_history : event_history[i].event_id = event_id

HistoryIndex(event_id) ==
    CHOOSE i \in DOMAIN event_history : event_history[i].event_id = event_id

\* a subscribe call for handler h and the type that has taken effect
SubscribeCalls(h, event_type) ==
    {s \in DOMAIN calls : /\ calls[s].op = "subscribe"
                          /\ calls[s].handler = h
                          /\ calls[s].event_type = event_type
                          /\ calls[s].pc = "returned"}

\* C11: every event a handler was invoked for was published after a
\* subscribe call for that handler and the event's type had taken effect.
C11_NoDeliveryOfEarlierEvents ==
    \A h \in Handlers : \A k \in DOMAIN received[h] :
        \E s \in SubscribeCalls(h, received[h][k].event_type) :
            calls[s].at < EventIndex(received[h][k].event_id)

\* an event was published, then h subscribed to its type for the first time,
\* and h has since been invoked for a later event and not for the earlier one
C11_Witness ==
    \E h \in Handlers, i \in DOMAIN events :
        /\ SubscribeCalls(h, events[i].event_type) # {}
        /\ \A s \in SubscribeCalls(h, events[i].event_type) : i <= calls[s].at
        /\ received[h] # <<>>
        /\ \A k \in DOMAIN received[h] :
               /\ received[h][k].event_id # events[i].event_id
               /\ received[h][k].event_type = events[i].event_type

ReceivedBy(h, event_id) ==
    {k \in DOMAIN received[h] : received[h][k].event_id = event_id}

\* the handler invocations made so far for the event of publish call c
Invocations(c) ==
    {<<h, k>> \in Handlers \X (1..MaxCalls) :
        k \in DOMAIN received[h] /\ received[h][k].event_id = c}

\* C12: a publish_event call that has the lock appends its event to the
\* history and never ends by raising; whatever its handlers raise, none of
\* the handler tasks it made is dropped, and when it has returned every
\* handler it notified has been invoked for the event.
C12_HandlerFailureIsIsolated ==
    \A c \in DOMAIN calls :
        (calls[c].op = "publish_event" /\ calls[c].pc # "in_acquire") =>
            /\ InHistory(c)
            /\ calls[c].pc \in {"in_gather", "returned"}
            /\ calls[c].pc = "in_gather" =>
                   Len(deliveries) + Cardinality(Invocations(c))
                       = Len(calls[c].notified)
            /\ calls[c].pc = "returned" =>
                   /\ Cardinality(Invocations(c)) = Len(calls[c].notified)
                   /\ \A i \in DOMAIN calls[c].notified :
                          ReceivedBy(calls[c].notified[i], c) # {}

\* a publish has returned although the first handler it notified raised, and
\* the second handler was invoked all the same
C12_Witness ==
    \E c \in DOMAIN calls :
        /\ calls[c].op = "publish_event" /\ calls[c].pc = "returned"
        /\ InHistory(c)
        /\ Len(calls[c].notified) = 2
        /\ calls[c].notified[1] # calls[c].notified[2]
        /\ \E k \in ReceivedBy(calls[c].notified[1], c) :
               received[calls[c].notified[1]][k].raised
        /\ \E k \in ReceivedBy(calls[c].notified[2], c) :
               ~received[calls[c].notified[2]][k].raised

\* C13: the events of one type a handler was invoked for reached it in the
\* order in which they stand in the history.
C13_DeliveryInHistoryOrder ==
    \A h \in Handlers : \A k1, k2 \in DOMAIN received[h] :
        (/\ k1 < k2
         /\ received[h][k1].event_type = received[h][k2].event_type
         /\ InHistory(received[h][k1].event_id)
         /\ InHistory(received[h][k2].event_id))
        => HistoryIndex(received[h][k1].event_id)
               <= HistoryIndex(received[h][k2].event_id)

\* a handler has been invoked for two different events of one type
C13_Witness ==
    \E h \in Handlers : \E k1, k2 \in DOMAIN received[h] :
        /\ k1 < k2
        /\ received[h][k1].event_type = received[h][k2].event_type
        /\ received[h][k1].event_id # received[h][k2].event_id
        /\ HistoryIndex(received[h][k1].event_id)
               < HistoryIndex(received[h][k2].event_id)

Min(x, y) == IF x <= y THEN x ELSE y

\* C14: the history holds min(number of events published, max_history)
\* events, and they are the last ones of Blackboard.events, in that order.
C14_HistoryIsMostRecent ==
    /\ Len(event_history) = Min(Len(events), max_history)
    /\ \A i \in DOMAIN event_history :
           event_history[i] = events[Len(events) - Len(event_history) + i]

\* more than max_history events have been published: the history is full,
\* ends with the newest event and has lost the oldest
C14_Witness ==
    /\ Len(events) > max_history
    /\ calls # <<>>
    /\ Len(event_history) = max_history
    /\ event_history[max_history].event_id = Len(calls)
    /\ \A i \in DOMAIN event_history :
           event_history[i].event_id # events[1].event_id

\* call c was made with no other call in progress
CalledWhenIdle(c) ==
    \A j \in 1..(c - 1) : calls[j].pc \in {"returned", "returned_false"}

\* the last store_data or delete_data call before call g that got the lock
LastWrite(g) ==
    LET writes == {w \in 1..(g - 1) :
                      /\ calls[w].op \in {"store_data", "delete_data"}
                      /\ calls[w].key = calls[g].key
                      /\ calls[w].pc # "in_acquire"}
    IN  IF writes = {} THEN 0
        ELSE CHOOSE w \in writes : \A v \in writes : v <= w

\* C15: every store_data call that was made with no other call in progress
\* has returned and has published exactly one DATA_UPDATED event; a get_data
\* that has returned read the value of the last store_data to its key, or
\* nothing when the key was deleted since or never stored.
C15_StoreCompletesAndIsRead ==
    /\ \A c \in DOMAIN calls :
           (calls[c].op = "store_data" /\ CalledWhenIdle(c)) =>
               /\ calls[c].pc = "returned"
               /\ Cardinality({i \in DOMAIN events :
                                  /\ events[i].event_id = c
                                  /\ events[i].event_type = DATA_UPDATED}) = 1
    /\ \A g \in DOMAIN calls :
           (calls[g].op = "get_data" /\ calls[g].pc = "returned") =>
               calls[g].value =
                   IF LastWrite(g) = 0 THEN NoValue
                   ELSE IF calls[LastWrite(g)].op = "delete_data" THEN NoValue
                   ELSE calls[LastWrite(g)].value

\* C16: every create_task_request and update_task_status call made with no
\* other call in progress has returned; the created task is registered as
\* PENDING, and an update of a known id has returned True.
C16_TaskCallsReturn ==
    \A c \in DOMAIN calls :
        (/\ calls[c].op \in {"create_task_request", "update_task_status"}
         /\ CalledWhenIdle(c))
        => /\ calls[c].pc \in {"returned", "returned_false"}
           /\ calls[c].op = "create_task_request" =>
                  task_requests[calls[c].task_id] # NoRequest
           /\ (calls[c].op = "update_task_status"
                   /\ task_requests[calls[c].task_id] # NoRequest) =>
                  calls[c].pc = "returned"

\* C17: every health_check call made with no other call in progress has
\* returned its report.
C17_HealthCheckReturns ==
    \A c \in DOMAIN calls :
        (calls[c].op = "health_check" /\ CalledWhenIdle(c)) =>
            calls[c].pc = "returned"

\* the order the spec documents: priority descending, then oldest first
DocumentedOrder(a, b) ==
    \/ a.priority > b.priority
    \/ a.priority = b.priority /\ a.created_at <= b.created_at

\* older task a and newer task b, ready, of one priority and one event type
Contenders(a, b) ==
    /\ is_ready(a) /\ is_ready(b)
    /\ a.priority = b.priority
    /\ a.created_at < b.created_at
    /\ DetermineTaskEventType(a) = DetermineTaskEventType(b)
    /\ ~Has(running_tasks, a.task_id) /\ ~Has(running_tasks, b.task_id)

\* C18: the tick considers the pending tasks in the order priority
\* descending, creation time ascending; hence of two ready tasks of equal
\* priority that compete for workers it never assigns the newer one and
\* leaves the older.
C18_OlderTaskConsideredFirst ==
    /\ LET sorted == SortedTasks(pending_tasks)
       IN  \A i, j \in DOMAIN sorted :
               i < j => DocumentedOrder(sorted[i], sorted[j])
    /\ \A a, b \in Values(pending_tasks) :
           Contenders(a, b) =>
               \A raisers \in SUBSET TaskIds :
                   Has(Tick(State, raisers).running, b.task_id)
                       => Has(Tick(State, raisers).running, a.task_id)

\* every record the scheduler holds under a task id
TaskRecords(st, id) ==
    {t \in Values(st.pending) \cup Values(st.running)
               \cup Values(st.completed) \cup Values(st.failed) :
        t.task_id = id}

Terminal(t) ==
    \/ t.status \in {COMPLETED, CANCELLED}
    \/ t.status = FAILED /\ t.retry_count >= t.max_retries

\* what a later completion report, tick or task-created event for the id
\* makes of the scheduler's state
LaterOutcomes(id) ==
    {TaskCompleted(State, id, f) : f \in BOOLEAN}
        \cup {Tick(State, raisers) : raisers \in SUBSET TaskIds}
        \cup {TaskCreated(State, id, d.task_type, d.priority, d.dependencies,
                          d.max_retries, d.timeout_seconds) :
                 d \in TaskCreatedInputs}

\* C19: for a task that rests in completed_tasks or failed_tasks in a
\* terminal status, no later completion report, tick or task-created event
\* with its id changes what the scheduler holds under that id.
C19_TerminalTaskIsImmutable ==
    \A t \in Values(completed_tasks) \cup Values(failed_tasks) :
        Terminal(t) =>
            \A st \in LaterOutcomes(t.task_id) :
                TaskRecords(st, t.task_id) = TaskRecords(State, t.task_id)

\* the priorities the spec allows
PriorityRange == 1..10

\* event.data of submissions with a priority out of range, a negative
\* timeout or a negative max_retries
InvalidSubmissions ==
    {d \in [task_type : {"design_request"}, priority : {0, 1, 11},
            dependencies : {<<>>}, max_retries : {-1, 0},
            timeout_seconds : {-1, 0}] :
        \/ d.priority \notin PriorityRange
        \/ d.max_retries < 0
        \/ d.timeout_seconds < 0}

\* C20: a task-created event with an invalid submission leaves every queue
\* of the scheduler as it was.
C20_InvalidSubmissionCreatesNoTask ==
    \A d \in InvalidSubmissions :
        TaskCreated(State, created + 1, d.task_type, d.priority,
                    d.dependencies, d.max_retries, d.timeout_seconds) = State

\* C21: retry_count <= max_retries for every task the scheduler holds and
\* for every task it builds from a task-created event it accepts, and the
\* retry sweep leaves a FAILED task with retry_count = max_retries alone.
C21_RetriesWithinMaxRetries ==
    /\ \A t \in AllTasks : t.retry_count <= t.max_retries
    /\ \A t \in Values(failed_tasks) :
           t.retry_count = t.max_retries =>
               /\ ~Has(RetryFailedTasks(State).pending, t.task_id)
                      \/ Has(pending_tasks, t.task_id)
               /\ Has(RetryFailedTasks(State).failed, t.task_id)
               /\ Get(RetryFailedTasks(State).failed, t.task_id) = t
    /\ \A d \in InvalidSubmissions :
           \A t \in Values(TaskCreated(State, created + 1, d.task_type,
                                       d.priority, d.dependencies,
                                       d.max_retries,
                                       d.timeout_seconds).pending) :
               t.retry_count <= t.max_retries

\* C22: the first subtask of a Sequential decomposition has no
\* dependencies, and every other subtask depends on exactly the subtask
\* right before it in the list.
C22_SequentialIsLinearChain ==
    \A id \in CollabIds :
        (/\ collaboration_tasks[id] # NoCollaboration
         /\ collaboration_tasks[id].collaboration_mode = SEQUENTIAL) =>
            LET d == collaboration_tasks[id].task_decomposition
            IN  \A k \in DOMAIN d :
                    d[k].dependencies =
                        IF k = 1 THEN <<>> ELSE <<d[k - 1].subtask_id>>

\* C23: a collaboration that is ACTIVE is later COMPLETED or FAILED; its
\* status becomes COMPLETED only at a monitor check that finds every subtask
\* completed, and a check that does not find that ends the collaboration
\* only past the deadline, as FAILED.
C23_ActiveCollaborationEnds ==
    /\ \A id \in CollabIds :
           (collaboration_tasks[id].status = C_ACTIVE)
               ~> (collaboration_tasks[id].status \in {C_COMPLETED, C_FAILED})
    /\ [][\A id \in CollabIds :
              (/\ collaboration_tasks[id].status # C_COMPLETED
               /\ collaboration_tasks'[id].status = C_COMPLETED) =>
                  /\ monitors[id] = "sleeping"
                  /\ ProgressComplete(collaboration_tasks[id])]_vars
    /\ [][\A id \in CollabIds :
              (/\ monitors[id] = "sleeping"
               /\ monitors'[id] = "done"
               /\ ~ProgressComplete(collaboration_tasks[id])) =>
                  /\ collaboration_tasks[id].elapsed
                         > collaboration_timeout_minutes
                  /\ collaboration_tasks'[id].status = C_FAILED]_vars

C23_Witness ==
    \E id \in CollabIds :
        /\ collaboration_tasks[id].status = C_COMPLETED
        /\ monitors[id] = "done"
        /\ ProgressComplete(collaboration_tasks[id])
        /\ id \in completed_collaborations

\* C24: a pending task is a candidate of the tick (is_ready) exactly when
\* every task it was submitted as depending on has succeeded.
C24_ReadyIffDependenciesSucceeded ==
    \A t \in Values(pending_tasks) :
        is_ready(t) <=>
            \A k \in DOMAIN t.declared : Succeeded(t.declared[k])

\* C25: a publish_event call is never suspended on the handler tasks of
\* its event: it returns without a handler having to finish first.
C25_PublishDoesNotWaitForHandlers ==
    \A c \in DOMAIN calls :
        calls[c].op = "publish_event" =>
            ~(calls[c].pc = "in_gather" /\ HandlersRunning(c) > 0)

\* C26: for every collaboration that has been ACTIVE,
\* get_collaboration_status returns a record, which shows the status the
\* collaboration has ended in once it has ended.
C26_EndedCollaborationIsArchived ==
    \A id \in CollabIds :
        collaboration_tasks[id].status \in {C_ACTIVE, C_COMPLETED, C_FAILED}
            => get_collaboration_status(id) = collaboration_tasks[id].status

\* C27: each worker's current_load is the number of tasks in running_tasks
\* that are assigned to it.
C27_LoadCountsRunningTasks ==
    \A a \in AgentNames :
        current_load[a] =
            Cardinality({i \in DOMAIN running_tasks :
                            running_tasks[i].assigned_agent = a})

\* the queue a status belongs to
QueueOf(status) ==
    IF status = PENDING THEN "pending"
    ELSE IF status \in {ASSIGNED, RUNNING} THEN "running"
    ELSE IF status = COMPLETED THEN "completed"
    ELSE IF status \in {FAILED, TIMEOUT} THEN "failed"
    ELSE "none"

\* C28: every task id is in exactly one of the four queues, and every task
\* has the status of the queue it is in.
C28_OneQueuePerTask ==
    /\ \A id \in TaskIds :
           Cardinality({q \in {"pending", "running", "completed", "failed"} :
                           Has(State[q], id)}) <= 1
    /\ \A q \in {"pending", "running", "completed", "failed"} :
           \A t \in Values(State[q]) : QueueOf(t.status) = q

\* C29: a call a handler makes to the blackboard that notified it never
\* waits for the lock held by the very publish_event that waits for this
\* handler (from that state neither call can return).
C29_HandlerCallDoesNotDeadlock ==
    \A j \in DOMAIN calls :
        calls[j].within # NoCaller =>
            ~(/\ calls[j].pc = "in_acquire"
              /\ bb_lock = calls[j].within
              /\ calls[calls[j].within].pc = "in_gather")

\* C30: while shutdown waits for the task queue to drain, the queue is
\* empty or a worker is left that can take items from it (otherwise
\* shutdown never returns).
C30_ShutdownReturns ==
    shutdown = "waiting" =>
        \/ task_queue = 0
        \/ \E w \in WorkerNames : workers[w] # "exited"

TypeOK ==
    /\ now \in 0..MaxTime
    /\ created \in 0..MaxTasks
    /\ \A a \in AgentNames : current_load[a] \in 0..max_concurrent_tasks[a]
    /\ is_available \in [AgentNames -> BOOLEAN]
    /\ \A t \in AllTasks : t.task_id \in TaskIds /\ t.status \in TaskStatus
    /\ bb_lock \in {NoCaller} \cup (1..MaxCalls)
    /\ task_requests \in [TaskIds -> TaskRequestStatus \cup {NoRequest}]
    /\ Len(event_history) <= max_history
    /\ Len(calls) <= MaxCalls
    /\ \A i \in DOMAIN bb_waiters : bb_waiters[i] \in DOMAIN calls
    /\ shared_data \in [DataKeys -> DataValues \cup {NoValue}]
    /\ \A i \in DOMAIN deliveries : deliveries[i].handler \in Handlers
    /\ active_collaborations \subseteq CollabIds
    /\ completed_collaborations \subseteq CollabIds
    /\ active_collaborations \cap completed_collaborations = {}
    /\ \A id \in CollabIds :
           /\ collaboration_tasks[id].status
                  \in {"absent", C_PENDING, C_ACTIVE, C_COMPLETED, C_FAILED}
           /\ collaboration_tasks[id].elapsed
                  \in 0..(collaboration_timeout_minutes + ClockStep)
           /\ monitors[id] \in {"none", "created", "sleeping", "done"}
    /\ running \in BOOLEAN
    /\ task_queue \in 0..MaxQueue
    /\ workers \in [WorkerNames ->
                       {"not_started", "testing", "getting", "processing",
                        "exited"}]
    /\ shutdown \in {"not_called", "waiting", "returned"}

====
